---- MODULE Spec2Model ----
(***************************************************************************)
(* generate_airline_fares_csv (src/generate_sample_airline_data.py) as a   *)
(* state machine.  One run of the function: pc is the position in its     *)
(* body, the other variables are its locals, the output file and the      *)
(* console.  NumPy arrays are sequences indexed from 1; the values held   *)
(* in index arrays are NumPy's 0-based indices.  Random draws are         *)
(* nondeterministic choices: a "seed" is one resolution of those choices. *)
(*                                                                         *)
(* Times are whole seconds since 1970-01-01 00:00:00.  Floats drawn by    *)
(* np.random.uniform are fixed-point numbers counted in ticks, with       *)
(* TicksPerCent ticks to a cent; a rounded fare is a number of cents.     *)
(***************************************************************************)
EXTENDS Integers, Sequences, FiniteSets, TLC

\* ---------------------------------------------------------------- bounds
\* Largest num_samples explored.
MaxSamples == 2
\* Largest airport vocabulary explored: airports is a prefix of AirportList.
MaxAirports == 2
\* Resolution of the modelled floats: ticks per cent.
TicksPerCent == 2
\* The day (days since 1970-01-01, here 2026-11-03) on which the clock is read.
ClockDay == 20760

\* ------------------------------------------------------ program constants
WindowDays == 365
SecondsPerDay == 86400
FareLow == 50
FareHigh == 1000
RoundDecimals == 2

airline_names ==
  << "AirTravel", "SkyLink", "GlobalWings", "SwiftAir", "HorizonFly",
     "PacificJets", "AtlanticRoute", "ContinentalLine", "StarFlight",
     "ApexAirlines", "BlueSky Airways", "Eagle Air", "Freedom Fly",
     "Voyage Airlines", "Zenith Airways", "Northwind Air", "SouthBound Flights" >>

AirportList ==
  << "LAX", "JFK", "ORD", "DFW", "DEN", "SFO", "SEA", "CLT", "MIA", "PHX",
     "ATL", "BOS", "IAD", "EWR", "MCO", "LAS", "DTW", "PHL", "MSP", "IAH",
     "LHR", "CDG", "DXB", "HND", "PEK", "PVG", "SIN", "SYD", "FRA", "AMS" >>

\* The airport vocabularies explored: the first k codes of the list, the
\* one-entry vocabulary included.
Vocabularies == { SubSeq(AirportList, 1, k) : k \in 1..MaxAirports }

\* The readings of datetime.now() explored: midnight and noon of ClockDay.
ClockReadings ==
  { ClockDay * SecondsPerDay + tod : tod \in {0, SecondsPerDay \div 2} }

VARIABLES
  pc,                      \* position in the function body
  num_samples,             \* argument
  airports,                \* the airport vocabulary
  end_date, start_date,    \* seconds since the epoch; 0 before they are set
  ids, airlines,
  source_indices, destination_indices,
  mask,                    \* the loop's mask; <<>> outside the loop
  sources, destinations,
  fares,                   \* cents
  random_seconds_offsets,
  updated_dates,           \* [year, month, day]
  data,                    \* the DataFrame: a sequence of rows
  file,                    \* [exists, lines]: the file at filename
  out,                     \* the console: the messages printed so far
  exc,                     \* the exception raised inside the try block
  to_csv_calls             \* how often data.to_csv was called

vars ==
  << pc, num_samples, airports, end_date, start_date, ids, airlines,
     source_indices, destination_indices, mask, sources, destinations, fares,
     random_seconds_offsets, updated_dates, data, file, out, exc, to_csv_calls >>

\* ------------------------------------------------------------ the library
\* np.arange(n): 0, 1, ..., n-1.
ArangeFromOne(n) == [i \in 1..n |-> i]
arange(n) == [i \in 1..n |-> i - 1]

\* np.random.randint(low, high): every integer of [low, high).
randint(low, high) == low..(high - 1)

\* np.random.uniform(low, high) in ticks: every value of [low, high]; NumPy
\* documents that floating-point rounding may return high itself.
uniform(low, high) == low..high

\* The draws explored from a wide range: its two ends (high - 1 and high are
\* met with the range that holds them).  The indices drawn for the airports
\* are explored in full.
Ends(low, high) == {low, high - 1, high}
\* The picks explored for the airline names, on which nothing else depends:
\* the first name.
First(low, high) == {low}

\* Arrays of n draws from S.
Arrays(n, S) == [1..n -> S]

\* np.round(x, RoundDecimals) of a value of x ticks, in cents: to the nearest
\* cent, a tie to the even cent (np.rint).
RoundUp(x) == (x \div TicksPerCent) + 1
round(x) ==
  LET q == x \div TicksPerCent
      r == x % TicksPerCent
  IN  IF 2 * r < TicksPerCent THEN q
      ELSE IF 2 * r > TicksPerCent THEN q + 1
      ELSE IF q % 2 = 0 THEN q ELSE q + 1

CentsPerUnit == 10 ^ RoundDecimals
Ticks(dollars) == dollars * CentsPerUnit * TicksPerCent

\* timedelta(days = d) in seconds.
timedelta(d) == d * SecondsPerDay

\* end_date - timedelta(days=365).
StartDateEarly(now) == now - timedelta(WindowDays + 1)
StartDate(now) == now - timedelta(WindowDays)

\* int((end_date - start_date).total_seconds()).
total_seconds(from, to) == to - from

\* The calendar date of day z (days since 1970-01-01), proleptic Gregorian.
CivilFromDays(z) ==
  LET s   == z + 719468
      era == s \div 146097
      doe == s - era * 146097
      yoe == (doe - doe \div 1460 + doe \div 36524 - doe \div 146096) \div 365
      doy == doe - (365 * yoe + yoe \div 4 - yoe \div 100)
      mp  == (5 * doy + 2) \div 153
      d   == doy - (153 * mp + 2) \div 5 + 1
      m   == IF mp < 10 THEN mp + 3 ELSE mp - 9
      y   == yoe + era * 400 + (IF m <= 2 THEN 1 ELSE 0)
  IN  [year |-> y, month |-> m, day |-> d]

\* strftime('%Y-%m-%d') of an instant: its calendar date, the time of day
\* dropped.
strftime(t) == CivilFromDays(t \div SecondsPerDay)

\* start_date + pd.to_timedelta(offsets, unit='s'), then strftime.
UpdatedDates(start, offsets) ==
  [i \in DOMAIN offsets |-> strftime(start + offsets[i])]

\* a == b on arrays: the Boolean array of the positions where they agree.
NotEqual(a, b) == [i \in DOMAIN a |-> a[i] # b[i]]
Equal(a, b) == [i \in DOMAIN a |-> a[i] = b[i]]

\* np.any, np.sum of a Boolean array.
np_all(b) == \A i \in DOMAIN b : b[i]
np_any(b) == \E i \in DOMAIN b : b[i]
np_sum(b) == Cardinality({i \in DOMAIN b : b[i]})

\* arr[m] = vals: the k-th True position of m receives vals[k]; the other
\* positions keep their value.
Rank(m, i) == Cardinality({j \in 1..i : m[j]})
MaskedAssignToCopy(arr, m, vals) == arr
MaskedAssignBroadcast(arr, m, vals) ==
  [i \in DOMAIN arr |-> IF m[i] THEN vals[Rank(m, i)] ELSE vals[1]]
MaskedAssign(arr, m, vals) ==
  [i \in DOMAIN arr |-> IF m[i] THEN vals[Rank(m, i)] ELSE arr[i]]

\* np.array(vocabulary)[indices].
Take(vocabulary, indices) ==
  [i \in DOMAIN indices |-> vocabulary[indices[i] + 1]]

\* pd.DataFrame({...}): row i holds the i-th entry of each column, the columns
\* in the order of the dict.
DataFrame(c_id, c_airline, c_source, c_destination, c_fare, c_date) ==
  [i \in DOMAIN c_id |->
     [id |-> c_id[i], airline_name |-> c_airline[i], source |-> c_source[i],
      destination |-> c_destination[i], fare |-> c_fare[i],
      updated_date |-> c_date[i]]]

\* The text pandas writes for a float64 fare of c cents: its shortest repr.
FormatFare(c) ==
  LET whole == c \div CentsPerUnit
      frac  == c % CentsPerUnit
  IN  IF frac % 10 = 0
      THEN ToString(whole) \o "." \o ToString(frac \div 10)
      ELSE ToString(whole) \o "." \o (IF frac < 10 THEN "0" ELSE "") \o ToString(frac)

\* YYYY-MM-DD.
Pad2(n) == (IF n < 10 THEN "0" ELSE "") \o ToString(n)
FormatDate(d) == ToString(d.year) \o "-" \o Pad2(d.month) \o "-" \o Pad2(d.day)

\* A line of the file is the tuple of its comma-separated cells.
Header == << "id", "airline_name", "source", "destination", "fare", "updated_date" >>
CellsDateBeforeFare(row) ==
  << ToString(row.id), row.airline_name, row.source, row.destination,
     FormatDate(row.updated_date), FormatFare(row.fare) >>
Cells(row) ==
  << ToString(row.id), row.airline_name, row.source, row.destination,
     FormatFare(row.fare), FormatDate(row.updated_date) >>

\* data.to_csv(filename, index=False): the header line, then a line per row.
to_csv_no_header(frame) == [i \in DOMAIN frame |-> Cells(frame[i])]
to_csv(frame) == <<Header>> \o [i \in DOMAIN frame |-> Cells(frame[i])]

\* Console messages.
Message(kind, detail) == [kind |-> kind, detail |-> detail]
\* print(f"An error occurred while saving the CSV: {e}").
ErrorMessageNoCause(e) == Message("error", "")
ErrorMessage(e) == Message("error", e.type)

NoException == [type |-> "", raised_by |-> ""]
NoFile == [exists |-> FALSE, lines |-> <<>>]

\* ------------------------------------------------------------------ Init
Init ==
  /\ pc = "start"
  /\ num_samples \in 0..MaxSamples
  /\ airports \in Vocabularies
  /\ end_date = 0
  /\ start_date = 0
  /\ ids = <<>>
  /\ airlines = <<>>
  /\ source_indices = <<>>
  /\ destination_indices = <<>>
  /\ mask = <<>>
  /\ sources = <<>>
  /\ destinations = <<>>
  /\ fares = <<>>
  /\ random_seconds_offsets = <<>>
  /\ updated_dates = <<>>
  /\ data = <<>>
  /\ file = NoFile
  /\ out = <<>>
  /\ exc = NoException
  /\ to_csv_calls = 0

\* --------------------------------------------------------------- actions
\* Lines 15-35: the first message, the vocabularies, and the one reading of
\* the clock.
Start ==
  /\ pc = "start"
  /\ \E now \in ClockReadings :
       /\ end_date' = now
       /\ start_date' = StartDate(now)
  /\ out' = Append(out, Message("generating", ""))
  /\ pc' = "ids"
  /\ UNCHANGED << num_samples, airports, ids, airlines, source_indices,
                  destination_indices, mask, sources, destinations, fares,
                  random_seconds_offsets, updated_dates, data, file, exc,
                  to_csv_calls >>

\* Line 39.
GenerateIds ==
  /\ pc = "ids"
  /\ ids' = arange(num_samples)
  /\ pc' = "airlines"
  /\ UNCHANGED << num_samples, airports, end_date, start_date, airlines,
                  source_indices, destination_indices, mask, sources,
                  destinations, fares, random_seconds_offsets, updated_dates,
                  data, file, out, exc, to_csv_calls >>

\* Line 43: np.random.choice(airline_names, num_samples).
GenerateAirlines ==
  /\ pc = "airlines"
  /\ \E picks \in Arrays(num_samples,
                         First(0, Len(airline_names)) \cap randint(0, Len(airline_names))) :
       airlines' = Take(airline_names, picks)
  /\ pc' = "indices"
  /\ UNCHANGED << num_samples, airports, end_date, start_date, ids,
                  source_indices, destination_indices, mask, sources,
                  destinations, fares, random_seconds_offsets, updated_dates,
                  data, file, out, exc, to_csv_calls >>

\* Lines 47-48.
GenerateIndices ==
  /\ pc = "indices"
  /\ source_indices' \in Arrays(num_samples, randint(0, Len(airports)))
  /\ destination_indices' \in Arrays(num_samples, randint(0, Len(airports)))
  /\ pc' = "loop"
  /\ UNCHANGED << num_samples, airports, end_date, start_date, ids, airlines,
                  mask, sources, destinations, fares, random_seconds_offsets,
                  updated_dates, data, file, out, exc, to_csv_calls >>

\* Lines 52-54: one round of the loop, entered while some position collides.
RepairRound ==
  /\ pc = "loop"
  /\ np_any(Equal(source_indices, destination_indices))
  /\ mask' = Equal(source_indices, destination_indices)
  /\ \E redraw \in Arrays(np_sum(mask'), randint(0, Len(airports))) :
       destination_indices' = MaskedAssign(destination_indices, mask', redraw)
  /\ UNCHANGED << pc, num_samples, airports, end_date, start_date, ids,
                  airlines, source_indices, sources, destinations, fares,
                  random_seconds_offsets, updated_dates, data, file, out, exc,
                  to_csv_calls >>

\* Line 52 evaluating to False, then lines 56-57.  mask is not read again and
\* is dropped here.
ExitLoop ==
  /\ pc = "loop"
  /\ ~ np_any(Equal(source_indices, destination_indices))
  /\ sources' = Take(airports, source_indices)
  /\ destinations' = Take(airports, destination_indices)
  /\ mask' = <<>>
  /\ pc' = "fares"
  /\ UNCHANGED << num_samples, airports, end_date, start_date, ids, airlines,
                  source_indices, destination_indices, fares,
                  random_seconds_offsets, updated_dates, data, file, out, exc,
                  to_csv_calls >>

\* Line 61.
GenerateFares ==
  /\ pc = "fares"
  /\ \E raw \in Arrays(num_samples,
                       Ends(Ticks(FareLow), Ticks(FareHigh))
                         \cap uniform(Ticks(FareLow), Ticks(FareHigh))) :
       fares' = [i \in 1..num_samples |-> round(raw[i])]
  /\ pc' = "dates"
  /\ UNCHANGED << num_samples, airports, end_date, start_date, ids, airlines,
                  source_indices, destination_indices, mask, sources,
                  destinations, random_seconds_offsets, updated_dates, data,
                  file, out, exc, to_csv_calls >>

\* Lines 65-73.
GenerateDates ==
  /\ pc = "dates"
  /\ LET total == total_seconds(start_date, end_date)
     IN  random_seconds_offsets'
           \in Arrays(num_samples, Ends(0, total) \cap randint(0, total))
  /\ updated_dates' = UpdatedDates(start_date, random_seconds_offsets')
  /\ pc' = "frame"
  /\ UNCHANGED << num_samples, airports, end_date, start_date, ids, airlines,
                  source_indices, destination_indices, mask, sources,
                  destinations, fares, data, file, out, exc, to_csv_calls >>

\* Lines 76-84.
CreateDataFrame ==
  /\ pc = "frame"
  /\ out' = Append(out, Message("creating", ""))
  /\ data' = DataFrame(ids, airlines, sources, destinations, fares, updated_dates)
  /\ pc' = "save"
  /\ UNCHANGED << num_samples, airports, end_date, start_date, ids, airlines,
                  source_indices, destination_indices, mask, sources,
                  destinations, fares, random_seconds_offsets, updated_dates,
                  file, exc, to_csv_calls >>

\* Lines 87-92: to_csv returns; the file holds every line.
ToCsvOk ==
  /\ pc = "save"
  /\ to_csv_calls' = to_csv_calls + 1
  /\ file' = [exists |-> TRUE, lines |-> to_csv(data)]
  /\ out' = out \o << Message("saving", ""), Message("success", "") >>
  /\ pc' = "size"
  /\ UNCHANGED << num_samples, airports, end_date, start_date, ids, airlines,
                  source_indices, destination_indices, mask, sources,
                  destinations, fares, random_seconds_offsets, updated_dates,
                  data, exc >>

\* Lines 87-91: to_csv raises.  Either the file could not be opened and is as
\* it was, or the write broke off and the file holds a proper prefix of the
\* lines.
ToCsvFail ==
  /\ pc = "save"
  /\ to_csv_calls' = to_csv_calls + 1
  /\ \/ /\ exc' = [type |-> "PermissionError", raised_by |-> "to_csv"]
        /\ file' = file
     \/ /\ exc' = [type |-> "OSError", raised_by |-> "to_csv"]
        /\ \E k \in 0..Len(data) :
             file' = [exists |-> TRUE, lines |-> SubSeq(to_csv(data), 1, k)]
  /\ out' = Append(out, Message("saving", ""))
  /\ pc' = "except"
  /\ UNCHANGED << num_samples, airports, end_date, start_date, ids, airlines,
                  source_indices, destination_indices, mask, sources,
                  destinations, fares, random_seconds_offsets, updated_dates,
                  data >>

\* Line 93: os.path.getsize returns and the size is printed.
GetSizeOk ==
  /\ pc = "size"
  /\ out' = Append(out, Message("size", ""))
  /\ pc' = "done"
  /\ UNCHANGED << num_samples, airports, end_date, start_date, ids, airlines,
                  source_indices, destination_indices, mask, sources,
                  destinations, fares, random_seconds_offsets, updated_dates,
                  data, file, exc, to_csv_calls >>

\* Line 93: os.path.getsize raises.
GetSizeFail ==
  /\ pc = "size"
  /\ exc' = [type |-> "OSError", raised_by |-> "getsize"]
  /\ pc' = "except"
  /\ UNCHANGED << num_samples, airports, end_date, start_date, ids, airlines,
                  source_indices, destination_indices, mask, sources,
                  destinations, fares, random_seconds_offsets, updated_dates,
                  data, file, out, to_csv_calls >>

\* Lines 94-95: the handler prints and the function returns.
ExceptHandler ==
  /\ pc = "except"
  /\ out' = Append(out, ErrorMessage(exc))
  /\ pc' = "done"
  /\ UNCHANGED << num_samples, airports, end_date, start_date, ids, airlines,
                  source_indices, destination_indices, mask, sources,
                  destinations, fares, random_seconds_offsets, updated_dates,
                  data, file, exc, to_csv_calls >>

Next ==
  \/ Start
  \/ GenerateIds
  \/ GenerateAirlines
  \/ GenerateIndices
  \/ RepairRound
  \/ ExitLoop
  \/ GenerateFares
  \/ GenerateDates
  \/ CreateDataFrame
  \/ ToCsvOk
  \/ ToCsvFail
  \/ GetSizeOk
  \/ GetSizeFail
  \/ ExceptHandler

Spec == Init /\ [][Next]_vars

\* A redraw at position i that leaves it with a destination other than its
\* source.
Resolve(i) ==
  /\ RepairRound
  /\ i \in DOMAIN destination_indices'
  /\ destination_indices'[i] # source_indices[i]

\* A round after which some position still collides.
StillColliding ==
  /\ RepairRound
  /\ np_any(Equal(source_indices', destination_indices'))

\* The run under fair draws: the function keeps executing, and no position is
\* redrawn to its own source for ever.  (A round that redraws every colliding
\* position to the value it had leaves the state as it was; the run that
\* repeats such rounds for ever is the run that never leaves the loop.)
FairSpec ==
  /\ Init
  /\ [][Next]_vars
  /\ WF_vars(Next)
  /\ \A i \in 1..MaxSamples : WF_vars(Resolve(i))

\* ---------------------------------------------------------------- claims
BeforeLoopExit == pc \in {"start", "ids", "airlines", "indices", "loop"}
Collisions == Equal(source_indices, destination_indices)
\* data.to_csv returned: the write succeeded.
WriteSucceeded == to_csv_calls = 1 /\ exc.raised_by # "to_csv"
Kinds == {out[k].kind : k \in DOMAIN out}
\* The data lines of the file: all but the header.
DataLines == 2..Len(file.lines)

\* C1: once the collision-repair loop is left, no position has its source
\* index equal to its destination index, and every record of the DataFrame
\* and every data line of the file has source different from destination.
C1_NoCollisionAfterLoop ==
  ~ BeforeLoopExit =>
    /\ Len(source_indices) = num_samples
    /\ \A i \in 1..num_samples :
         /\ source_indices[i] # destination_indices[i]
         /\ sources[i] # destinations[i]
    /\ \A i \in DOMAIN data : data[i].source # data[i].destination
    /\ \A k \in DataLines : file.lines[k][3] # file.lines[k][4]

\* A full-size run that wrote its file.
C1_Witness ==
  /\ pc = "done"
  /\ WriteSucceeded
  /\ num_samples = MaxSamples
  /\ Len(file.lines) = MaxSamples + 1
  /\ Len(airports) = 2

\* C2: a run whose write succeeds leaves a file of exactly num_samples + 1
\* lines, the header first, for every num_samples >= 0.
C2_RowCount ==
  (WriteSucceeded /\ pc \in {"size", "except", "done"}) =>
    /\ file.exists
    /\ Len(file.lines) = num_samples + 1
    /\ file.lines[1] = Header
    /\ \A k \in DataLines : file.lines[k] # Header

\* The empty dataset: a run with num_samples = 0 that wrote its file.
C2_Witness ==
  /\ pc = "done"
  /\ WriteSucceeded
  /\ num_samples = 0
  /\ file.exists

\* The lines the run writes when the same draws (the same seed) meet the clock
\* reading now.
RunOutput(now) ==
  to_csv(DataFrame(ids, airlines, sources, destinations, fares,
                   UpdatedDates(StartDate(now), random_seconds_offsets)))
\* The lines without their updated_date cell.
WithoutDate(lines) == [k \in DOMAIN lines |-> SubSeq(lines[k], 1, 5)]

C4_Handled ==
  /\ Len(out) >= 1
  /\ out[Len(out)] = Message("error", exc.type)
  /\ exc.type # ""
  /\ Cardinality({k \in DOMAIN out : out[k].kind = "error"}) = 1
  /\ to_csv_calls = 1
  /\ exc.raised_by = "to_csv" =>
       /\ exc.type = "PermissionError" => file = NoFile
       /\ exc.type = "OSError" =>
            /\ file.exists
            /\ Len(file.lines) < Len(to_csv(data))
            /\ file.lines = SubSeq(to_csv(data), 1, Len(file.lines))
  /\ exc.raised_by = "getsize" => file = [exists |-> TRUE, lines |-> to_csv(data)]

\* C4 as claimed: whether to_csv or the size query failed, neither the
\* success nor the file-size message has been printed.
C4_NoSuccessMessage ==
  /\ pc = "except" => ENABLED ExceptHandler
  /\ (pc = "done" /\ exc # NoException) =>
       /\ C4_Handled
       /\ "success" \notin Kinds
       /\ "size" \notin Kinds

\* C4 as amended: the file-size message is never printed after a failure, and
\* the success message is not printed when to_csv failed; when the size query
\* failed the success message was printed before the failure.
C4_ErrorReported ==
  /\ pc = "except" => ENABLED ExceptHandler
  /\ (pc = "done" /\ exc # NoException) =>
       /\ C4_Handled
       /\ "size" \notin Kinds
       /\ exc.raised_by = "to_csv" => "success" \notin Kinds
       /\ exc.raised_by = "getsize" =>
            /\ Len(out) >= 2
            /\ out[Len(out) - 1] = Message("success", "")

\* A write that broke off after the header: the function returned and the
\* partial file is still there.
C4_Witness ==
  /\ pc = "done"
  /\ exc = [type |-> "OSError", raised_by |-> "to_csv"]
  /\ num_samples = MaxSamples
  /\ file = [exists |-> TRUE, lines |-> <<Header>>]

\* C5: with a vocabulary of at least two airports, under fair redraws the
\* collision-repair loop is eventually left; and the loop has no cap: from
\* every state of the loop with a collision, a round can be taken that leaves
\* a collision, so that without fair redraws the run may stay in the loop.
C5_LoopTerminates ==
  /\ (Len(airports) >= 2 /\ pc = "loop") ~> (pc # "loop")
  /\ [](pc = "loop" /\ np_any(Collisions) => ENABLED StillColliding)

\* The loop about to be left after a round that redrew every position.
C5_Witness ==
  /\ pc = "loop"
  /\ Len(airports) >= 2
  /\ num_samples = MaxSamples
  /\ mask # <<>>
  /\ np_all(mask)
  /\ ~ np_any(Collisions)

\* The calendar dates compared.
DateLE(a, b) ==
  \/ a.year < b.year
  \/ a.year = b.year /\ a.month < b.month
  \/ a.year = b.year /\ a.month = b.month /\ a.day <= b.day

\* C6: every offset is in [0, total_seconds) and every updated_date, in the
\* arrays, the DataFrame and the file, is a calendar date from the day of
\* end_date - 365 days to the day of end_date.
C6_DateBounds ==
  LET first == CivilFromDays((end_date - WindowDays * SecondsPerDay) \div SecondsPerDay)
      last  == CivilFromDays(end_date \div SecondsPerDay)
  IN  /\ \A i \in DOMAIN random_seconds_offsets :
           /\ random_seconds_offsets[i] >= 0
           /\ random_seconds_offsets[i] < WindowDays * SecondsPerDay
      /\ \A i \in DOMAIN updated_dates :
           /\ DateLE(first, updated_dates[i])
           /\ DateLE(updated_dates[i], last)
      /\ \A i \in DOMAIN data : data[i].updated_date = updated_dates[i]
      /\ \A k \in DataLines : file.lines[k][6] = FormatDate(updated_dates[k - 1])

\* Both ends of the window in one run: a row dated on the day of start_date
\* and a row dated on the day of end_date.
C6_Witness ==
  /\ pc = "done"
  /\ WriteSucceeded
  /\ \E i, j \in DOMAIN updated_dates :
       /\ updated_dates[i] = CivilFromDays(ClockDay - WindowDays)
       /\ updated_dates[j] = CivilFromDays(ClockDay)

\* C7: every fare is a whole number of cents from 50.00 to 1000.00, in the
\* array, the DataFrame and the file.
C7_FareBounds ==
  /\ \A i \in DOMAIN fares :
       /\ fares[i] \in Nat
       /\ fares[i] >= FareLow * CentsPerUnit
       /\ fares[i] <= FareHigh * CentsPerUnit
  /\ \A i \in DOMAIN data : data[i].fare = fares[i]
  /\ \A k \in DataLines : file.lines[k][5] = FormatFare(fares[k - 1])

\* Both ends of the range in one run, each written to the file.
C7_Witness ==
  /\ pc = "done"
  /\ WriteSucceeded
  /\ \E k, l \in DataLines :
       /\ file.lines[k][5] = "50.0"
       /\ file.lines[l][5] = "1000.0"

\* C8: the ids are 0, 1, ..., num_samples - 1 in this order, before, during
\* and after the collision-repair loop, in the DataFrame and in the file.
C8_SequentialIds ==
  pc \notin {"start", "ids"} =>
    /\ Len(ids) = num_samples
    /\ \A k \in 1..num_samples : ids[k] = k - 1
    /\ \A i \in DOMAIN data : data[i].id = i - 1
    /\ \A k \in DataLines : file.lines[k][1] = ToString(k - 2)

\* A full-size file written by a run over the largest vocabulary.
C8_Witness ==
  /\ pc = "done"
  /\ WriteSucceeded
  /\ num_samples = MaxSamples
  /\ file.lines[MaxSamples + 1][1] = ToString(MaxSamples - 1)
  /\ Len(airports) = MaxAirports

\* C9: a round of the loop leaves source_indices alone, redraws the
\* destination of exactly the colliding positions to an index of the
\* vocabulary, and leaves every other destination alone, so that no position
\* starts to collide.
C9_RoundFrame ==
  [][ (pc = "loop" /\ pc' = "loop") =>
        /\ source_indices' = source_indices
        /\ mask' = Collisions
        /\ \A i \in 1..num_samples :
             /\ Collisions[i] => destination_indices'[i] \in 0..(Len(airports) - 1)
             /\ ~ Collisions[i] =>
                  /\ destination_indices'[i] = destination_indices[i]
                  /\ source_indices'[i] # destination_indices'[i] ]_vars

\* After a round that redrew some positions and not others.
C9_Witness ==
  /\ pc = "loop"
  /\ mask # <<>>
  /\ np_any(mask)
  /\ ~ np_all(mask)
  /\ np_any(Collisions)

\* C10: with a one-entry vocabulary and at least one sample the run never
\* leaves the loop: every position collides at every round, another round is
\* always taken, no DataFrame is assembled and no file written.
C10_SingleAirportLoops ==
  (Len(airports) = 1 /\ num_samples >= 1) =>
    /\ BeforeLoopExit
    /\ data = <<>>
    /\ file = NoFile
    /\ pc = "loop" =>
         /\ np_all(Collisions)
         /\ ENABLED RepairRound
         /\ ~ ENABLED ExitLoop

\* The one-entry vocabulary after a round: every position collides again.
C10_Witness ==
  /\ Len(airports) = 1
  /\ num_samples >= 1
  /\ pc = "loop"
  /\ mask # <<>>
  /\ np_all(Collisions)

====
